---- MODULE Spec2Model ----
(***************************************************************************)
(* A model of minipy3: the minimizing printer (Minimize, built on          *)
(* ast._Unparser), the statement-termination stage (AddSemicolon), the     *)
(* block compaction post_process, the integer-literal rewrite of           *)
(* visit_Constant, the parenthesization of visit_BinOp / visit_Compare and *)
(* the output selection of minimize().                                     *)
(*                                                                         *)
(* The module holds several specifications over one set of variables:      *)
(*   SpecRender   render passes (traverse, fill, import buffer,            *)
(*                post_process) on trees that are generated node by node   *)
(*   SpecClasses  definitions of subclasses of AddSemicolon                 *)
(*   SpecSelect   calls of minimize() on texts and payloads of given sizes  *)
(*   SpecConst    visit_Constant on integer literals near powers of 10 and 2 *)
(*   SpecExpr     the printer on expression trees, and the text re-parsed   *)
(***************************************************************************)
EXTENDS Integers, Sequences, FiniteSets, TLC

VARIABLES
    \* ---- one Minimize instance during a render pass (SpecRender)
    source,          \* self._source: the list of written fragments
    indent,          \* self._indent: current nesting depth
    indent_mem,      \* self._indent_mem: depth at which the current line was started
    import_names,    \* Minimize.import_names: the CLASS-level list (shared by all instances)
    wrapped,         \* kinds whose visitor __init__ wrapped with and_add
    stack,           \* position of the traversal in the tree: the open bodies
    pc,              \* "idle" | "visiting" | "returned" | "raised"
    out,             \* what visit() returned: the post-processed text, as fragments
    passes,          \* number of render passes started so far
    nodes,           \* number of nodes traversed so far, over all passes
    own,             \* names of the Import nodes the current pass's tree contains
    \* ---- the class hierarchy below AddSemicolon (SpecClasses)
    classes,         \* the classes defined so far, in order of definition
    heap,            \* the set objects: address -> value of an add_semicolon_after set
    \* ---- one call of minimize() (SpecSelect)
    args,            \* the call's inputs: text lengths, payload lengths, flags
    codes,           \* the text the call returned: [name, len]
    \* ---- one integer literal (SpecConst)
    value,           \* node.value: the integer, as decimal digits
    written,         \* the characters visit_Constant wrote
    \* ---- one expression (SpecExpr)
    tree,            \* the expression node handed to the printer
    printed          \* the characters the printer wrote

renderVars == <<source, indent, indent_mem, import_names, wrapped, stack, pc, out,
                passes, nodes, own>>

classVars == <<classes, heap>>

selectVars == <<args, codes>>

constVars == <<value, written>>

exprVars == <<tree, printed>>

vars == <<renderVars, classVars, selectVars, constVars, exprVars>>

\* what a render pass leaves alone
nonRenderVars == <<classVars, selectVars, constVars, exprVars>>

-----------------------------------------------------------------------------
(* Bounds of the model *)

MaxNodes == 4       \* nodes traversed in a run (statements, clauses)
MaxDepth == 2       \* nesting depth of a tree
MaxPasses == 2      \* render passes in a run
MaxClasses == 4     \* classes defined in a run, AddSemicolon and Minimize included
MaxSpread == 2      \* spread of the text and payload lengths handed to minimize()
MaxExp10 == 16      \* integer literals go up to 10^MaxExp10 + MaxOff ...
MaxExp2 == 50       \* ... and 2^MaxExp2 + MaxOff
MaxOff == 2         \* distance of an integer literal from the nearest power
MaxOps == 2         \* operators in an expression tree

-----------------------------------------------------------------------------
(* Small helpers on sequences *)

Last(s) == s[Len(s)]

Front(s) == SubSeq(s, 1, Len(s) - 1)

RECURSIVE Flatten(_, _)
\* '\n'.join(lines) / ''.join: the pieces with sep between them
Flatten(ss, sep) ==
    IF ss = <<>> THEN <<>>
    ELSE IF Len(ss) = 1 THEN ss[1]
    ELSE ss[1] \o sep \o Flatten(Tail(ss), sep)

-----------------------------------------------------------------------------
(* Text fragments.  A fragment is one string handed to write(); the buffer  *)
(* is the list of fragments, exactly as ast._Unparser.write extends it.     *)

NL == "\n"

SpaceStr == <<" ", "  ", "   ", "    ", "     ", "      ">>

\* ' ' * n
Spaces(n) == IF n = 0 THEN "" ELSE SpaceStr[n]

IsSpaces(t) == \E n \in 1..Len(SpaceStr) : SpaceStr[n] = t

\* len(t) for a fragment of blanks
SpacesLen(t) == CHOOSE n \in 1..Len(SpaceStr) : SpaceStr[n] = t

\* Minimize.blocks
blocks == {"try", "else", "finally", "except", "except*", "class", "def", "@", "if",
           "elif", "while", "with", "match", "for", "async"}

\* text.strip().split()[0] for the texts the visitors hand to fill
FirstWord(text) ==
    CASE text = "if " -> "if"
      [] text = "elif " -> "elif"
      [] text = "else" -> "else"
      [] text = "match " -> "match"
      [] text = "case " -> "case"
      [] text = "def f" -> "def"
      [] text = "import " -> "import"
      [] OTHER -> text

\* AddSemicolon.add_semicolon_after as written in the class body
BaseKinds == {"Return", "Delete", "Assign", "AugAssign", "AnnAssign", "Raise", "Assert",
              "Import", "ImportFrom", "Global", "Nonlocal", "Expr", "Pass", "Break",
              "Continue"}

\* cls.add_semicolon_after ^= ignore : the value the set has afterwards
InitSubclassXor(set, ignore) == (set \ ignore) \cup (ignore \ set)

\* class Minimize(AddSemicolon, ignore={'Import'})
MinimizeIgnore == {"Import"}

\* AddSemicolon.__init__: every kind of add_semicolon_after that has a visitor
\* gets wrapped (all kinds of the base set have one in ast._Unparser / Minimize)
WrappedAtInit(set) == {k \in set : k \in BaseKinds}

-----------------------------------------------------------------------------
(* The printer, as operators on the record of one instance's fields *)

Printer == [source |-> source, indent |-> indent, indent_mem |-> indent_mem,
            import_names |-> import_names]

\* _Unparser.write
write(p, text) == [p EXCEPT !.source = Append(@, text)]

\* _Unparser.maybe_newline
maybe_newline(p) == IF p.source # <<>> THEN write(p, NL) ELSE p

\* the condition under which Minimize.fill starts a new physical line
FillBreaks(p, text) ==
    \/ (text # "" /\ FirstWord(text) \in blocks)
    \/ p.indent # p.indent_mem
    \/ (p.source # <<>> /\ Last(p.source) = ":")

\* Minimize.fill
fill(p, text) ==
    IF FillBreaks(p, text)
    THEN write(write([maybe_newline(p) EXCEPT !.indent_mem = p.indent],
                     Spaces(p.indent)), text)
    ELSE write(p, text)

RECURSIVE interleave(_, _)
\* self.interleave(lambda: self.write(','), self.traverse, aliases): the names
\* with ',' between them (visit_alias writes the name)
interleave(p, names) ==
    IF names = <<>> THEN p
    ELSE IF Len(names) = 1 THEN write(p, names[1])
    ELSE interleave(write(write(p, names[1]), ","), Tail(names))

None == "None"

\* the names the trees import
ImportNames == {"a", "b"}

\* [i for i in self.import_names if i]
RECURSIVE Truthy(_)
Truthy(s) ==
    IF s = <<>> THEN <<>>
    ELSE IF s[1] = None THEN Truthy(Tail(s)) ELSE <<s[1]>> \o Truthy(Tail(s))

\* the flush at the head of Minimize.traverse, taken for a node that is not an Import
flush(p) ==
    IF p.import_names # <<>> /\ Last(p.import_names) # None
    THEN LET p1 == [p EXCEPT !.import_names = Append(@, None)]
             p2 == fill(p1, "import ")
             p3 == interleave(p2, Truthy(p1.import_names))
             p4 == write(p3, ";")
         IN [p4 EXCEPT !.import_names = <<>>]
    ELSE p

\* a wrapper that forgets the marker
and_add_silent(p, kind, w) == p

\* and_add's wrapper: the visitor's own output, then ';' when the kind is wrapped
and_add(p, kind, w) == IF kind \in w THEN write(p, ";") ELSE p

\* _Unparser.block, on entry
block_enter(p) == [write(p, ":") EXCEPT !.indent = @ + 1]

\* _Unparser.block, on exit
block_exit(p) == [p EXCEPT !.indent = @ - 1]

\* traverse(expression node): the flush test runs for every node, then the
\* expression's text is written
traverse_expr(p, text) == write(flush(p), text)

\* Minimize._write_docstring
write_docstring(p) == write(write(fill(p, ""), "'doc'"), ";")

\* traverse(node) for a simple statement: visit_Assign (fill(), then the text)
\* or visit_Pass (fill('pass')), wrapped or not
visit_simple(p, kind, w) ==
    LET p1 == flush(p)
        p2 == IF kind = "Assign" THEN write(fill(p1, ""), "x=1") ELSE fill(p1, "pass")
    IN and_add(p2, kind, w)

\* traverse(Import node): no flush; visit_Import extends the class-level list
visit_Import(p, name, w) ==
    and_add([p EXCEPT !.import_names = Append(@, name)], "Import", w)

\* traverse(If node) up to the entry of its body
visit_If(p) == block_enter(traverse_expr(fill(flush(p), "if "), "c"))

\* visit_If: the body's block ends, then the elif clause up to the entry of its body
visit_If_elif(p) == block_enter(traverse_expr(fill(block_exit(p), "elif "), "c"))

\* visit_If: the body's block ends, then the final else up to the entry of its body
visit_If_else(p) == block_enter(fill(block_exit(p), "else"))

\* traverse(Match node) up to the entry of its block
visit_Match(p) == block_enter(traverse_expr(fill(flush(p), "match "), "x"))

\* traverse(match_case node) up to the entry of its body
visit_match_case(p) == block_enter(traverse_expr(fill(flush(p), "case "), "1"))

\* Minimize.delimit('(' , ')') around nothing: the last fragment loses its
\* trailing blanks (none of the header texts has any), then '(' and ')'
delimit_parens(p) == write(write(p, "("), ")")

\* traverse(FunctionDef node) up to the entry of its body, docstring included
function_helper(p, doc) ==
    LET p1 == fill(flush(p), "def f")
        p2 == flush(delimit_parens(p1))   \* traverse(node.args) inside the parens
        p3 == block_enter(p2)
    IN IF doc THEN write_docstring(p3) ELSE p3

-----------------------------------------------------------------------------
(* post_process *)

RECURSIVE SplitAt(_, _)
\* the pieces of a fragment list between its "\n" fragments
SplitAt(s, acc) ==
    IF s = <<>> THEN <<acc>>
    ELSE IF s[1] = NL THEN <<acc>> \o SplitAt(Tail(s), <<>>)
    ELSE SplitAt(Tail(s), Append(acc, s[1]))

\* a fragment made only of characters of whitespace + ';'
Strippable(t) == t = "" \/ t = ";" \/ IsSpaces(t)

RECURSIVE rstrip(_)
\* line.rstrip(whitespace + ';')
rstrip(line) ==
    IF line = <<>> THEN <<>>
    ELSE IF Strippable(Last(line)) THEN rstrip(Front(line)) ELSE line

RECURSIVE lstrip(_)
\* the leading blanks of str.strip() (the trailing ones are already gone)
lstrip(line) ==
    IF line = <<>> THEN <<>>
    ELSE IF line[1] = "" \/ IsSpaces(line[1]) THEN lstrip(Tail(line)) ELSE line

\* source.splitlines(): no line for an empty text or after a final line break
splitlines(s) ==
    LET parts == SplitAt(s, <<>>)
    IN IF \A i \in 1..Len(Last(parts)) : Last(parts)[i] = "" THEN Front(parts) ELSE parts

RECURSIVE get_indent(_)
\* _get_indent: len(line) - len(textwrap.dedent(line)), the leading blanks of one line
get_indent(line) ==
    IF line = <<>> THEN 0
    ELSE IF line[1] = "" THEN get_indent(Tail(line))
    ELSE IF IsSpaces(line[1]) THEN SpacesLen(line[1]) + get_indent(Tail(line))
    ELSE 0

\* lines = [line.rstrip(whitespace + ';') for line in source.splitlines()]
StrippedLines(s) == LET ls == splitlines(s) IN [i \in 1..Len(ls) |-> rstrip(ls[i])]

endswith_colon(line) == line # <<>> /\ Last(line) = ":"

\* [i for i, l in enumerate(lines) if l.endswith(':')], 1-based, ascending
RECURSIVE HeaderIndices(_, _)
HeaderIndices(lines, i) ==
    IF i > Len(lines) THEN <<>>
    ELSE (IF endswith_colon(lines[i]) THEN <<i>> ELSE <<>>) \o HeaderIndices(lines, i + 1)

\* the test `i != ls2 and (it_line_tabs >= ... or it_line_tabs < ...)` of the loop:
\* TRUE when the header at (1-based) index i is skipped
skip_merge(lines, i) ==
    LET next_line == IF i + 2 <= Len(lines) THEN lines[i + 2] ELSE <<>>
        it_line_tabs == get_indent(lines[i])
    IN /\ i # Len(lines) - 1
       /\ \/ it_line_tabs >= get_indent(lines[i + 1])
          \/ it_line_tabs < get_indent(next_line)

RECURSIVE merge_loop(_, _)
\* the for loop over the header indices: st = [lines, to_del, raised]
merge_loop(st, idx) ==
    IF idx = <<>> \/ st.raised THEN st
    ELSE LET i == idx[1]
         IN IF i + 1 > Len(st.lines)
            THEN [st EXCEPT !.raised = TRUE]      \* back_line = lines[i + 1]: IndexError
            ELSE IF skip_merge(st.lines, i)
            THEN merge_loop(st, Tail(idx))
            ELSE merge_loop([st EXCEPT !.lines[i] = @ \o lstrip(st.lines[i + 1]),
                                       !.to_del = Append(@, i + 1)], Tail(idx))

RECURSIVE del_lines(_, _, _)
\* the second loop: del lines[i - offset] for each i of to_del
del_lines(lines, to_del, offset) ==
    IF to_del = <<>> THEN lines
    ELSE LET i == to_del[1] - offset
         IN del_lines(SubSeq(lines, 1, i - 1) \o SubSeq(lines, i + 1, Len(lines)),
                      Tail(to_del), offset + 1)

\* the state of post_process after its first loop
merged(s) ==
    LET lines == StrippedLines(s)
    IN merge_loop([lines |-> lines, to_del |-> <<>>, raised |-> FALSE],
                  HeaderIndices(lines, 1))

\* Minimize.post_process: [raised, text]
post_process(s) ==
    LET st == merged(s)
    IN IF st.raised THEN [raised |-> TRUE, text |-> <<>>]
       ELSE [raised |-> FALSE,
             text |-> Flatten(del_lines(st.lines, st.to_del, 0), <<NL>>)]

-----------------------------------------------------------------------------
(* The values the variables of the other specifications rest at *)

IdleClasses == classes = <<>> /\ heap = <<>>

IdleSelect == args = <<>> /\ codes = <<>>

IdleConst == value = <<>> /\ written = <<>>

IdleExpr == tree = <<>> /\ printed = <<>>

IdleRender ==
    /\ source = <<>> /\ indent = 0 /\ indent_mem = 0 /\ import_names = <<>>
    /\ wrapped = {} /\ stack = <<>> /\ pc = "idle" /\ out = <<>>
    /\ passes = 0 /\ nodes = 0 /\ own = {}

-----------------------------------------------------------------------------
(* SpecRender: render passes.  The tree is generated while it is traversed: *)
(* every action is the printer's work on the next node of the tree.         *)

Frame(kind, nonempty) == [kind |-> kind, nonempty |-> nonempty]

Top == stack[Len(stack)]

\* the body on top of the stack has got one more statement
Counted(st) == [st EXCEPT ![Len(st)].nonempty = TRUE]

\* a statement may come next: a body (not a match block) is open
InBody == pc = "visiting" /\ Top.kind # "Match" /\ nodes < MaxNodes

Commit(p) ==
    /\ source' = p.source
    /\ indent' = p.indent
    /\ indent_mem' = p.indent_mem
    /\ import_names' = p.import_names

InitRender ==
    /\ source = <<>>
    /\ indent = 0
    /\ indent_mem = 0
    /\ import_names = <<>>
    /\ wrapped = {}
    /\ stack = <<>>
    /\ pc = "idle"
    /\ out = <<>>
    /\ passes = 0
    /\ nodes = 0
    /\ own = {}
    /\ IdleClasses
    /\ IdleSelect
    /\ IdleConst
    /\ IdleExpr

\* Minimize() is constructed and visit(tree) starts: _source = [], then
\* traverse(Module) (with its flush test) and visit_Module, docstring included
NewPass(doc) ==
    /\ pc # "visiting"
    /\ passes < MaxPasses
    /\ LET fresh == [source |-> <<>>, indent |-> 0, indent_mem |-> 0,
                     import_names |-> import_names]
           p1 == flush(fresh)
       IN Commit(IF doc THEN write_docstring(p1) ELSE p1)
    /\ wrapped' = WrappedAtInit(InitSubclassXor(BaseKinds, MinimizeIgnore))
    /\ stack' = <<Frame("Module", doc)>>
    /\ pc' = "visiting"
    /\ out' = <<>>
    /\ passes' = passes + 1
    /\ nodes' = nodes
    /\ own' = {}
    /\ UNCHANGED nonRenderVars

VisitSimple(kind) ==
    /\ InBody
    /\ Commit(visit_simple(Printer, kind, wrapped))
    /\ stack' = Counted(stack)
    /\ nodes' = nodes + 1
    /\ UNCHANGED <<wrapped, pc, out, passes, own>>
    /\ UNCHANGED nonRenderVars

VisitImport(name) ==
    /\ InBody
    /\ Commit(visit_Import(Printer, name, wrapped))
    /\ stack' = Counted(stack)
    /\ nodes' = nodes + 1
    /\ own' = own \cup {name}
    /\ UNCHANGED <<wrapped, pc, out, passes>>
    /\ UNCHANGED nonRenderVars

Open(p, kind, nonempty) ==
    /\ InBody
    /\ Len(stack) <= MaxDepth
    /\ Commit(p)
    /\ stack' = Append(Counted(stack), Frame(kind, nonempty))
    /\ nodes' = nodes + 1
    /\ UNCHANGED <<wrapped, pc, out, passes, own>>
    /\ UNCHANGED nonRenderVars

VisitIf == Open(visit_If(Printer), "If", FALSE)

VisitMatch == Open(visit_Match(Printer), "Match", FALSE)

VisitFunctionDef(doc) == Open(function_helper(Printer, doc), "FunctionDef", doc)

\* a further case of the match statement on top of the stack
VisitCase ==
    /\ pc = "visiting" /\ Top.kind = "Match" /\ nodes < MaxNodes
    /\ Commit(visit_match_case(Printer))
    /\ stack' = Append(Counted(stack), Frame("Case", FALSE))
    /\ nodes' = nodes + 1
    /\ UNCHANGED <<wrapped, pc, out, passes, own>>
    /\ UNCHANGED nonRenderVars

\* the if body on top of the stack is complete and an elif / else clause follows
Clause(p, kind) ==
    /\ pc = "visiting" /\ Top.kind = "If" /\ Top.nonempty /\ nodes < MaxNodes
    /\ Commit(p)
    /\ stack' = [stack EXCEPT ![Len(stack)] = Frame(kind, FALSE)]
    /\ nodes' = nodes + 1
    /\ UNCHANGED <<wrapped, pc, out, passes, own>>
    /\ UNCHANGED nonRenderVars

VisitElif == Clause(visit_If_elif(Printer), "If")

VisitElse == Clause(visit_If_else(Printer), "Else")

\* the body on top of the stack is complete and so is its statement
EndBody ==
    /\ pc = "visiting" /\ Len(stack) > 1 /\ Top.nonempty
    /\ Commit(block_exit(Printer))
    /\ stack' = Front(stack)
    /\ UNCHANGED <<wrapped, pc, out, passes, nodes, own>>
    /\ UNCHANGED nonRenderVars

\* the traversal is over: visit returns post_process(''.join(self._source))
Return ==
    /\ pc = "visiting" /\ Len(stack) = 1
    /\ LET r == post_process(source)
       IN /\ pc' = IF r.raised THEN "raised" ELSE "returned"
          /\ out' = r.text
    /\ UNCHANGED <<source, indent, indent_mem, import_names, wrapped, stack, passes,
                   nodes, own>>
    /\ UNCHANGED nonRenderVars

NextRender ==
    \/ \E doc \in BOOLEAN : NewPass(doc)
    \/ \E kind \in {"Assign", "Pass"} : VisitSimple(kind)
    \/ \E name \in ImportNames : VisitImport(name)
    \/ VisitIf
    \/ VisitElif
    \/ VisitElse
    \/ VisitMatch
    \/ VisitCase
    \/ \E doc \in BOOLEAN : VisitFunctionDef(doc)
    \/ EndBody
    \/ Return

SpecRender == InitRender /\ [][NextRender]_vars

-----------------------------------------------------------------------------
(* Properties of the render passes (SpecRender) *)

\* the import names written into a fragment list
NamesIn(s) == {s[i] : i \in 1..Len(s)} \cap ImportNames

\* fragment i of the buffer ends the text of a rendered simple statement, of the
\* coalesced import line or of a docstring
StmtEnd(i) ==
    \/ source[i] \in {"x=1", "pass", "'doc'"}
    \/ /\ source[i] \in ImportNames
       /\ (i = Len(source) \/ source[i + 1] # ",")

\* fragment i is the first text of its physical line
StartsLine(i) ==
    \A j \in 1..(i - 1) :
        (\A k \in j..(i - 1) : source[k] # NL) => (source[j] = "" \/ IsSpaces(source[j]))

HeaderTexts == {"if ", "elif ", "else", "match ", "case ", "def f"}

\* C3: in every render pass each import binding accumulated in the buffer is
\* emitted in that pass's output, and the buffer is empty when visit returns
C3_ImportsEmittedInPass ==
    pc = "returned" => (import_names = <<>> /\ own \subseteq NamesIn(out))

\* C4: the import buffer is per-pass state: a pass starts with an empty buffer
\* (the buffer is empty whenever no pass is running) and what a pass writes holds
\* no import binding that its own tree did not contain
C4_BufferPerPass ==
    /\ pc # "visiting" => import_names = <<>>
    /\ NamesIn(source) \subseteq own

\* C5: post_process splices line i+1 onto a header line i and deletes it if and
\* only if indent(i) < indent(i+1) and indent(i) >= indent(i+2), a missing line
\* i+2 counting as indentation 0
C5_MergeRule ==
    pc = "returned" =>
        LET lines == StrippedLines(source)
            to_del == merged(source).to_del
            ind(i) == IF i <= Len(lines) THEN get_indent(lines[i]) ELSE 0
        IN \A i \in 1..Len(lines) :
              endswith_colon(lines[i]) =>
                  ((\E k \in 1..Len(to_del) : to_del[k] = i + 1)
                       <=> (ind(i) < ind(i + 1) /\ ind(i) >= ind(i + 2)))

\* C8: every simple statement the printer renders (the coalesced import line and
\* a docstring included) is immediately followed by exactly one ';' fragment in
\* the render buffer, and no ';' stands anywhere else
C8_SemicolonAfterStatement ==
    \A i \in 1..Len(source) :
        /\ StmtEnd(i) => /\ i + 1 <= Len(source)
                         /\ source[i + 1] = ";"
                         /\ (i + 2 <= Len(source) => source[i + 2] # ";")
        /\ source[i] = ";" => (i > 1 /\ StmtEnd(i - 1))

\* a pass has written a docstring, a coalesced import line and two simple
\* statements that share one physical line
C8_Witness ==
    /\ \E i \in 1..Len(source) : source[i] = "'doc'"
    /\ \E i \in 1..Len(source) : source[i] = "import "
    /\ \E i \in 1..(Len(source) - 3) :
          source[i] = "x=1" /\ source[i + 1] = ";" /\ source[i + 2] = "pass"
              /\ source[i + 3] = ";"

\* a step that completes a statement's text in the buffer
WritesStatement == source' # source /\ source' # <<>> /\ Last(source') = ";"

\* C10: the consequences of fill's rule: all statements on one physical line were
\* rendered at the same depth (a statement is only ever completed on a line that
\* was started at the depth the statement is rendered at), a block header always
\* begins its own line, and nothing is appended to a line that ends in a
\* block-opening ':'
C10_FillLines ==
    /\ [](\A i \in 1..Len(source) : source[i] \in HeaderTexts => StartsLine(i))
    /\ [](\A i \in 1..(Len(source) - 1) : source[i] = ":" => source[i + 1] = NL)
    /\ [][WritesStatement => indent_mem' = indent']_vars

\* the fragments a step appends to the render buffer
Appended == SubSeq(source', Len(source) + 1, Len(source'))

\* a step of the traversal that starts with imports in the buffer
StepWithImports == pc = "visiting" /\ pc' = "visiting" /\ import_names # <<>>

\* the step leaves the buffered imports where they are: nothing is written and
\* the traversal stays in the same body at the same depth (a further import)
KeepsImports ==
    /\ source' = source
    /\ indent' = indent
    /\ Len(stack') = Len(stack)
    /\ Len(import_names') > Len(import_names)

\* the step writes the coalesced import line before any other text, at the
\* depth the traversal is at when the step starts: on the current line if that
\* line was started at this depth, else on a new line indented to this depth
WritesImportsFirst ==
    LET new == Appended
    IN /\ Len(source') > Len(source)
       /\ SubSeq(source', 1, Len(source)) = source
       /\ \/ new[1] = "import " /\ indent_mem = indent
          \/ Len(new) >= 2 /\ source = <<>> /\ new[1] = Spaces(indent) /\ new[2] = "import "
          \/ Len(new) >= 3 /\ new[1] = NL /\ new[2] = Spaces(indent) /\ new[3] = "import "

\* C11: the coalesced import line is written at the nesting depth and inside the
\* block of the import statements that were accumulated, before any text of the
\* statement or clause that follows them: while imports are buffered, a step of
\* the traversal either buffers a further import of the same body or writes the
\* import line first, at the depth the imports stand at; no body is left and no
\* clause is begun with imports still in the buffer
C11_FlushInPlace == [][StepWithImports => (KeepsImports \/ WritesImportsFirst)]_vars

-----------------------------------------------------------------------------
(* SpecClasses: class definitions.  add_semicolon_after is a set object that *)
(* a class attribute refers to; heap maps the address of each such object to *)
(* its value, classes[c].attr is the address class c's attribute holds.      *)

\* the kinds that the `ignore` of a new subclass is drawn from ('If' has a
\* visitor but is not in the base set)
IgnoreKinds == {"Import", "Pass", "If"}

\* AddSemicolon.__init_subclass__(cls, ignore=...) for a class cls(parent):
\* `cls.add_semicolon_after ^= ignore` reads the attribute (found on the parent),
\* updates that set object in place (set.__ixor__) and binds the same object to
\* cls.  base records the value the parent's set had when cls was defined.
init_subclass(h, cs, parent, ignore) ==
    LET a == cs[parent].attr
    IN [heap |-> [h EXCEPT ![a] = InitSubclassXor(h[a], ignore)],
        classes |-> Append(cs, [parent |-> parent, ignore |-> ignore, attr |-> a,
                                base |-> h[a]])]

\* class AddSemicolon(ast._Unparser): the class body creates the set
AddSemicolonDefined ==
    [heap |-> <<BaseKinds>>,
     classes |-> <<[parent |-> 0, ignore |-> {}, attr |-> 1, base |-> BaseKinds]>>]

\* the package as imported: AddSemicolon, then class Minimize(AddSemicolon, ignore={'Import'})
PackageImported ==
    init_subclass(AddSemicolonDefined.heap, AddSemicolonDefined.classes, 1, MinimizeIgnore)

\* cls.add_semicolon_after, as an instance of class c reads it
EffectiveSet(c) == heap[classes[c].attr]

InitClasses ==
    /\ heap = PackageImported.heap
    /\ classes = PackageImported.classes
    /\ IdleRender
    /\ IdleSelect
    /\ IdleConst
    /\ IdleExpr

\* class X(<parent>, ignore=<ignore>): ...
DefineSubclass(parent, ignore) ==
    /\ Len(classes) < MaxClasses
    /\ LET r == init_subclass(heap, classes, parent, ignore)
       IN heap' = r.heap /\ classes' = r.classes
    /\ UNCHANGED <<renderVars, selectVars, constVars, exprVars>>

NextClasses ==
    \E parent \in 1..Len(classes) : \E ignore \in SUBSET IgnoreKinds :
        DefineSubclass(parent, ignore)

SpecClasses == InitClasses /\ [][NextClasses]_vars

\* C6: the effective add_semicolon_after set of a class defined with ignore=S
\* is its parent's set with the kinds of S removed: it contains no kind of S and
\* no kind that the parent's set did not contain
C6_IgnoreRemoves ==
    \A c \in 2..Len(classes) :
        /\ EffectiveSet(c) \cap classes[c].ignore = {}
        /\ EffectiveSet(c) \subseteq classes[c].base

-----------------------------------------------------------------------------
(* SpecSelect: minimize().  A text is known by its name and its length; the  *)
(* compressors are known by the length of the repr() of what they return.    *)

CodecNames == <<"lzma", "zlib", "gzip", "bz2">>

\* len(mod.__name__)
NameLen(mod) == IF mod = "bz2" THEN 3 ELSE 4

\* len(f'exec(__import__({name!r}).decompress({data!r}))') where repr(data)
\* has payload characters: 16 + (len(name) + 2) + 13 + payload + 2
StubLen(mod, payload) == 16 + (NameLen(mod) + 2) + 13 + payload + 2

Text(name, len) == [name |-> name, len |-> len]

\* the stub of a codec of the loop
Stub(a, mod) == Text(mod, StubLen(mod, a.payload[mod]))

\* the lzma.FORMAT_ALONE stub
AloneStub(a) == Text("lzma_alone", StubLen("lzma", a.alone))

\* a replacement that takes the newer text whatever its length
shorter_last(codes_, val) == val

\* `if len(_val) < len(codes): codes = _val`, and the final conditional expression
shorter(codes_, val) == IF val.len < codes_.len THEN val ELSE codes_

\* a forced mode that keeps the plaintext candidate
forced_kept(codes_, a) == codes_

\* `if compress_required: codes = <FORMAT_ALONE stub>`
forced(codes_, a) == IF a.compress_required THEN AloneStub(a) ELSE codes_

RECURSIVE codec_loop(_, _, _)
\* for mod in (lzma, zlib, gzip, bz2): ...
codec_loop(codes_, a, mods) ==
    IF mods = <<>> THEN codes_
    ELSE codec_loop(shorter(codes_, Stub(a, mods[1])), a, Tail(mods))

\* minimize(raw_code, compress, compress_required)
minimize(a) ==
    LET c0 == IF a.raw <= a.minimized THEN Text("raw", a.raw)
              ELSE Text("minimized", a.minimized)        \* min(..., key=len)
        c1 == forced(c0, a)
        compress == a.compress \/ a.compress_required
    IN IF compress THEN shorter(codec_loop(c1, a, CodecNames), AloneStub(a)) ELSE c1

\* lengths of the raw and of the minimized text: around the length of a stub
TextLens == 40..(40 + MaxSpread)

\* lengths of the repr() of a compressed payload
PayloadLens == 3..(3 + MaxSpread)

Args ==
    [raw : TextLens, minimized : TextLens,
     payload : [{"lzma", "zlib", "gzip", "bz2"} -> PayloadLens],
     alone : PayloadLens, compress : BOOLEAN, compress_required : BOOLEAN]

InitSelect ==
    /\ args \in Args
    /\ codes = <<>>
    /\ IdleRender
    /\ IdleClasses
    /\ IdleConst
    /\ IdleExpr

\* the call returns
Minimize ==
    /\ codes = <<>>
    /\ codes' = minimize(args)
    /\ UNCHANGED <<args, renderVars, classVars, constVars, exprVars>>

NextSelect == Minimize

SpecSelect == InitSelect /\ [][NextSelect]_vars

Returned == codes # <<>>

\* every candidate the call considered when it compresses
Stubs == {Stub(args, mod) : mod \in {"lzma", "zlib", "gzip", "bz2"}} \cup {AloneStub(args)}

Candidates == {Text("raw", args.raw), Text("minimized", args.minimized)} \cup Stubs

\* C1: with compress=True and compress_required=False the returned text is no
\* longer than any candidate: the raw source, the minimized text, each stub
C1_ShortestCandidate ==
    (Returned /\ args.compress /\ ~args.compress_required) =>
        \A c \in Candidates : codes.len <= c.len

\* the call returned the gzip stub, shorter than the raw text, which in turn is
\* shorter than the minimized text
C1_Witness ==
    /\ Returned /\ args.compress /\ ~args.compress_required
    /\ codes.name = "gzip"
    /\ args.raw < args.minimized

\* C2 as claimed: with compress_required=True the returned text is always the
\* stub of the designated codec, lzma
C2_AlwaysLzma ==
    (Returned /\ args.compress_required) => codes.name \in {"lzma", "lzma_alone"}

\* C2 as amended: with compress_required=True the returned text is always a
\* self-decompressing stub, never plaintext, whatever the lengths of the raw and
\* the minimized text; it is the shortest of the five stubs
C2_AlwaysStub ==
    (Returned /\ args.compress_required) =>
        /\ codes \in Stubs
        /\ \A c \in Stubs : codes.len <= c.len

\* forced compression returned a zlib stub that is longer than the raw text
C2_Witness ==
    /\ Returned /\ args.compress_required
    /\ codes.name = "zlib"
    /\ codes.len > args.raw

-----------------------------------------------------------------------------
(* Python's int and float.  An int is unbounded: it is held as the sequence  *)
(* of its decimal digits, least significant first (0 is <<>>).  A float is   *)
(* an IEEE-754 double; the doubles met here are whole and are held as ints.  *)

DigitChars == <<"0", "1", "2", "3", "4", "5", "6", "7", "8", "9">>

RECURSIVE FromSmall(_)
\* the int whose value is the small number n
FromSmall(n) == IF n = 0 THEN <<>> ELSE <<n % 10>> \o FromSmall(n \div 10)

RECURSIVE Small(_)
\* the small number whose value is the int a
Small(a) == IF a = <<>> THEN 0 ELSE a[1] + 10 * Small(Tail(a))

RECURSIVE Strip(_)
\* drop leading zero digits
Strip(a) == IF a # <<>> /\ Last(a) = 0 THEN Strip(Front(a)) ELSE a

RECURSIVE MulSmall(_, _, _)
\* a * m + carry for a small m
MulSmall(a, m, carry) ==
    IF a = <<>> THEN FromSmall(carry)
    ELSE LET t == a[1] * m + carry
         IN <<t % 10>> \o MulSmall(Tail(a), m, t \div 10)

RECURSIVE AddSmall(_, _)
\* a + n for a small n
AddSmall(a, n) ==
    IF n = 0 THEN a
    ELSE IF a = <<>> THEN FromSmall(n)
    ELSE LET t == a[1] + n
         IN <<t % 10>> \o AddSmall(Tail(a), t \div 10)

RECURSIVE SubDigits(_, _, _)
SubDigits(a, b, borrow) ==
    IF a = <<>> THEN <<>>
    ELSE LET t == a[1] - (IF b = <<>> THEN 0 ELSE b[1]) - borrow
         IN <<(t + 10) % 10>>
            \o SubDigits(Tail(a), IF b = <<>> THEN b ELSE Tail(b), IF t < 0 THEN 1 ELSE 0)

\* a - b for a >= b
Sub(a, b) == Strip(SubDigits(a, b, 0))

RECURSIVE LessFrom(_, _, _)
LessFrom(a, b, i) ==
    IF i = 0 THEN FALSE
    ELSE IF a[i] # b[i] THEN a[i] < b[i]
    ELSE LessFrom(a, b, i - 1)

\* a < b
Less(a, b) == IF Len(a) # Len(b) THEN Len(a) < Len(b) ELSE LessFrom(a, b, Len(a))

RECURSIVE DivSmall(_, _)
\* a = m * q + r for a small m (the small factors and divisors are kept below
\* 2^16 or 10^8, so that no intermediate value leaves the machine integers)
DivSmall(a, m) ==
    IF a = <<>> THEN [q |-> <<>>, r |-> 0]
    ELSE LET hi == DivSmall(Tail(a), m)
             t == 10 * hi.r + a[1]
         IN [q |-> <<t \div m>> \o hi.q, r |-> t % m]

Least(m, n) == IF m < n THEN m ELSE n

RECURSIVE Shr(_, _, _)
\* a >> s for s >= 1, with the last bit shifted out (half) and whether a bit
\* shifted out before it was set (sticky)
Shr(a, s, sticky) ==
    IF s = 1
    THEN LET h == DivSmall(a, 2)
         IN [q |-> Strip(h.q), half |-> h.r, sticky |-> sticky]
    ELSE LET c == Least(s - 1, 16)
             h == DivSmall(a, 2 ^ c)
         IN Shr(Strip(h.q), s - c, sticky \/ h.r # 0)

RECURSIVE Shl(_, _)
\* a << s
Shl(a, s) ==
    IF s = 0 THEN a
    ELSE LET c == Least(s, 16) IN Shl(MulSmall(a, 2 ^ c, 0), s - c)

RECURSIVE Log2Floor(_)
Log2Floor(k) == IF k <= 1 THEN 0 ELSE 1 + Log2Floor(k \div 2)

RECURSIVE bit_length(_)
bit_length(a) ==
    IF a = <<>> THEN 0
    ELSE IF Len(a) <= 8 THEN 1 + Log2Floor(Small(a))
    ELSE 16 + bit_length(Strip(DivSmall(a, 2 ^ 16).q))

RECURSIVE pow(_, _)
\* b ** k for small b and k
pow(b, k) ==
    IF k = 0 THEN <<1>>
    ELSE LET c == Least(k, 8) IN MulSmall(pow(b, k - c), b ^ c, 0)

\* significant bits of a double
MantissaBits == 53

\* ln(b) as a fraction
Ln(b) == IF b = 10 THEN <<2302585, 1000000>> ELSE <<693147, 1000000>>

\* float(a), as math.log10 / math.log2 convert their int argument: the nearest
\* double, a tie going to the even significand
ToDouble(a) ==
    LET s == bit_length(a) - MantissaBits
    IN IF s <= 0 THEN a
       ELSE LET sh == Shr(a, s, FALSE)
                up == sh.half = 1 /\ (sh.sticky \/ DivSmall(sh.q, 2).r = 1)
            IN Shl(IF up THEN AddSmall(sh.q, 1) ELSE sh.q, s)

\* math.log10(x) (b = 10) or math.log2(x) (b = 2) is the double k: the logarithm
\* of the double x, about k + (x - b^k) / (b^k * ln b), lies within half a unit in
\* the last place of k.  For k in [2^e, 2^(e+1)) the unit is 2^(e-52); below a
\* power of two it is half of that.
LogIs(x, b, k) ==
    LET p == pow(b, k)
        below == Less(x, p)
        diff == IF below THEN Sub(p, x) ELSE Sub(x, p)
        e == Log2Floor(k)
        shift == MantissaBits - e + (IF below /\ pow(2, e) = FromSmall(k) THEN 1 ELSE 0)
    IN Less(MulSmall(Shl(diff, shift), Ln(b)[2], 0), MulSmall(p, Ln(b)[1], 0))

\* the whole numbers next to the logarithm of a to base b
LogCandidates(a, b) ==
    LET n == IF b = 10 THEN Len(a) ELSE bit_length(a)
    IN {k \in {n - 1, n} : k >= 1}

\* `not math.log10(value) % 1`: the logarithm is a whole number
LogWhole(a, b) == \E k \in LogCandidates(a, b) : LogIs(ToDouble(a), b, k)

\* int(math.log10(value)) when the logarithm is whole
LogInt(a, b) == CHOOSE k \in LogCandidates(a, b) : LogIs(ToDouble(a), b, k)

RECURSIVE repr(_)
\* repr(value) of an int: its decimal digits, most significant first
repr(a) ==
    IF a = <<>> THEN <<"0">>
    ELSE IF Len(a) = 1 THEN <<DigitChars[a[1] + 1]>>
    ELSE repr(Tail(a)) \o <<DigitChars[a[1] + 1]>>

RECURSIVE visit_Constant(_)
\* Minimize.visit_Constant for an int value; the BinOp it builds is traversed
\* with the precedence of a fresh node, so it is written without parentheses,
\* and its operands are Constant nodes again
visit_Constant(v) ==
    IF ~Less(v, pow(10, 5)) /\ LogWhole(v, 10)
    THEN visit_Constant(FromSmall(10)) \o <<"*", "*">> \o visit_Constant(FromSmall(LogInt(v, 10)))
    ELSE IF ~Less(v, pow(2, 17)) /\ LogWhole(v, 2)
    THEN visit_Constant(FromSmall(2)) \o <<"*", "*">> \o visit_Constant(FromSmall(LogInt(v, 2)))
    ELSE repr(v)

-----------------------------------------------------------------------------
(* SpecConst: visit_Constant on one integer literal                          *)

\* the integer literals tried: around the powers of 10 and of 2
Nearby(p) ==
    {AddSmall(p, d) : d \in 0..MaxOff} \cup {Sub(p, FromSmall(d)) : d \in 1..MaxOff}

Literals ==
    UNION {Nearby(pow(10, k)) : k \in 4..MaxExp10}
        \cup UNION {Nearby(pow(2, k)) : k \in 16..MaxExp2}

InitConst ==
    /\ value \in Literals
    /\ written = <<>>
    /\ IdleRender
    /\ IdleClasses
    /\ IdleSelect
    /\ IdleExpr

\* the printer visits the Constant node
VisitConstant ==
    /\ written = <<>>
    /\ written' = visit_Constant(value)
    /\ UNCHANGED <<value, renderVars, classVars, selectVars, exprVars>>

NextConst == VisitConstant

SpecConst == InitConst /\ [][NextConst]_vars

\* position of the first '*' of a text, 0 if there is none
StarAt(text) ==
    IF \E i \in 1..Len(text) : text[i] = "*"
    THEN CHOOSE i \in 1..Len(text) : text[i] = "*" /\ \A j \in 1..(i - 1) : text[j] # "*"
    ELSE 0

RECURSIVE int(_)
\* int(text) of a decimal literal
int(text) ==
    IF text = <<>> THEN <<>>
    ELSE Strip(<<CHOOSE d \in 0..9 : DigitChars[d + 1] = Last(text)>> \o int(Front(text)))

\* C7: `10**k` is written only when value = 10^k exactly with k >= 5, `2**k` only
\* when value = 2^k exactly with k >= 17, the written form is then strictly
\* shorter than the decimal literal and evaluates to value; every other integer is
\* written as its decimal literal
C7_ExactPowersOnly ==
    written # <<>> =>
        LET i == StarAt(written)
            b == Small(int(SubSeq(written, 1, i - 1)))
            k == Small(int(SubSeq(written, i + 2, Len(written))))
        IN IF i = 0 THEN written = repr(value)
           ELSE /\ (b = 10 /\ k >= 5) \/ (b = 2 /\ k >= 17)
                /\ value = pow(b, k)
                /\ Len(written) < Len(repr(value))

-----------------------------------------------------------------------------
(* Expressions.  A node is <<"Name", id>>, <<"Constant", value>>,            *)
(* <<"BinOp", left, op, right>> or <<"Compare", left, ops, comparators>>.   *)

\* ast._Precedence, the levels in their order
Precedence ==
    [TEST |-> 4, OR |-> 5, AND |-> 6, NOT |-> 7, CMP |-> 8, BOR |-> 9, BXOR |-> 10,
     BAND |-> 11, SHIFT |-> 12, ARITH |-> 13, TERM |-> 14, FACTOR |-> 15,
     POWER |-> 16, AWAIT |-> 17, ATOM |-> 18]

\* _Precedence.next()
next(prec) == IF prec = Precedence.ATOM THEN prec ELSE prec + 1

\* the operators of the trees tried, one of each precedence class met
BinOps == {"|", "<<", "-", "*", "**"}

\* ast._Unparser.binop_precedence
binop_precedence(operator) ==
    CASE operator = "|" -> Precedence.BOR
      [] operator = "^" -> Precedence.BXOR
      [] operator = "&" -> Precedence.BAND
      [] operator \in {"<<", ">>"} -> Precedence.SHIFT
      [] operator \in {"+", "-"} -> Precedence.ARITH
      [] operator \in {"*", "/", "%"} -> Precedence.TERM
      [] operator = "**" -> Precedence.POWER

\* ast._Unparser.binop_rassoc
binop_rassoc == {"**"}

\* the characters of an operator
Chars(operator) ==
    CASE operator = "<<" -> <<"<", "<">>
      [] operator = "**" -> <<"*", "*">>
      [] OTHER -> <<operator>>

\* with self.require_parens(precedence, node): parentheses if the precedence set
\* on the node by its parent is higher than the node's own
require_parens(precedence, node_precedence, text) ==
    IF node_precedence > precedence THEN <<"(">> \o text \o <<")">> ELSE text

RECURSIVE traverse(_, _)
RECURSIVE visit_BinOp(_, _)
RECURSIVE visit_Compare(_, _)
RECURSIVE compare_tail(_, _)

\* Minimize.visit_BinOp; node_precedence is what set_precedence left on the node
visit_BinOp(node, node_precedence) ==
    LET operator == node[3]
        operator_precedence == binop_precedence(operator)
        left_precedence == IF operator \in binop_rassoc THEN next(operator_precedence)
                           ELSE operator_precedence
        right_precedence == IF operator \in binop_rassoc THEN operator_precedence
                            ELSE next(operator_precedence)
    IN require_parens(operator_precedence, node_precedence,
                      traverse(node[2], left_precedence) \o Chars(operator)
                          \o traverse(node[4], right_precedence))

\* for o, e in zip(node.ops, node.comparators): write(cmpops[o]); traverse(e)
compare_tail(ops, comparators) ==
    IF ops = <<>> THEN <<>>
    ELSE Chars(ops[1]) \o traverse(comparators[1], next(Precedence.CMP))
             \o compare_tail(Tail(ops), Tail(comparators))

\* Minimize.visit_Compare
visit_Compare(node, node_precedence) ==
    require_parens(Precedence.CMP, node_precedence,
                   traverse(node[2], next(Precedence.CMP)) \o compare_tail(node[3], node[4]))

\* traverse(node): the visitor of the node's class
traverse(node, node_precedence) ==
    CASE node[1] = "Name" -> <<node[2]>>
      [] node[1] = "Constant" -> visit_Constant(node[2])
      [] node[1] = "BinOp" -> visit_BinOp(node, node_precedence)
      [] node[1] = "Compare" -> visit_Compare(node, node_precedence)

-----------------------------------------------------------------------------
(* SpecExpr: the printer on one expression tree                              *)

\* the operands at the leaves: a name, a literal that is written verbatim and a
\* literal that is rewritten to a power
Leaves == {<<"Name", "a">>, <<"Constant", FromSmall(7)>>, <<"Constant", pow(10, 5)>>}

RECURSIVE Trees(_)
\* the trees with n operators
Trees(n) ==
    IF n = 0 THEN Leaves
    ELSE UNION {UNION {{<<"BinOp", l, op, r>> : op \in BinOps} \cup {<<"Compare", l, <<"<">>, <<r>>>>} :
                       l \in Trees(i), r \in Trees(n - 1 - i)} : i \in 0..(n - 1)}

InitExpr ==
    /\ tree \in UNION {Trees(n) : n \in 0..MaxOps}
    /\ printed = <<>>
    /\ IdleRender
    /\ IdleClasses
    /\ IdleSelect
    /\ IdleConst

\* the printer is run on the tree; no precedence is set on the root, which
\* get_precedence reads as TEST
Unparse ==
    /\ printed = <<>>
    /\ printed' = traverse(tree, Precedence.TEST)
    /\ UNCHANGED <<tree, renderVars, classVars, selectVars, constVars>>

NextExpr == Unparse

SpecExpr == InitExpr /\ [][NextExpr]_vars

-----------------------------------------------------------------------------
(* Reading a printed expression back: the tokens and the grammar of Python   *)
(* for names, integer literals, parentheses, comparisons and the binary      *)
(* operators                                                                 *)

IsDigit(ch) == \E d \in 1..10 : DigitChars[d] = ch

RECURSIVE DigitRun(_)
\* length of the run of digits a text starts with
DigitRun(text) ==
    IF text # <<>> /\ IsDigit(text[1]) THEN 1 + DigitRun(Tail(text)) ELSE 0

RECURSIVE Tokenize(_)
\* the tokens of a text, each the longest that matches
Tokenize(text) ==
    IF text = <<>> THEN <<>>
    ELSE LET n == IF IsDigit(text[1]) THEN DigitRun(text)
                  ELSE IF Len(text) >= 2 /\ text[1] = text[2] /\ text[1] \in {"*", "<"}
                  THEN 2
                  ELSE 1
         IN <<SubSeq(text, 1, n)>> \o Tokenize(SubSeq(text, n + 1, Len(text)))

\* the left-associative binary operators, loosest binding level first
Levels == <<{"|"}, {"^"}, {"&"}, {"<<"}, {"+", "-"}, {"*", "/", "%"}>>

IsOp(toks, ops) == toks # <<>> /\ \E op \in ops : Chars(op) = toks[1]

OpOf(tok, ops) == CHOOSE op \in ops : Chars(op) = tok

RECURSIVE parse_comparison(_)
RECURSIVE parse_comparators(_)
RECURSIVE parse_level(_, _)
RECURSIVE parse_operands(_, _, _)
RECURSIVE parse_power(_)
RECURSIVE parse_atom(_)

\* comparison: bitwise_or (compare_op bitwise_or)*
parse_comparison(toks) ==
    LET first == parse_level(toks, 1)
        tail == parse_comparators(first.rest)
    IN IF tail.ops = <<>> THEN first
       ELSE [node |-> <<"Compare", first.node, tail.ops, tail.comparators>>,
             rest |-> tail.rest]

parse_comparators(toks) ==
    IF IsOp(toks, {"<"})
    THEN LET e == parse_level(Tail(toks), 1)
             more == parse_comparators(e.rest)
         IN [ops |-> <<"<">> \o more.ops, comparators |-> <<e.node>> \o more.comparators,
             rest |-> more.rest]
    ELSE [ops |-> <<>>, comparators |-> <<>>, rest |-> toks]

\* one level of left-associative operators: next_level (op next_level)*
parse_level(toks, lv) ==
    IF lv > Len(Levels) THEN parse_power(toks)
    ELSE LET first == parse_level(toks, lv + 1)
         IN parse_operands(first.node, first.rest, lv)

parse_operands(left, toks, lv) ==
    IF IsOp(toks, Levels[lv])
    THEN LET r == parse_level(Tail(toks), lv + 1)
         IN parse_operands(<<"BinOp", left, OpOf(toks[1], Levels[lv]), r.node>>, r.rest, lv)
    ELSE [node |-> left, rest |-> toks]

\* power: atom ['**' power]
parse_power(toks) ==
    LET a == parse_atom(toks)
    IN IF IsOp(a.rest, {"**"})
       THEN LET r == parse_power(Tail(a.rest))
            IN [node |-> <<"BinOp", a.node, "**", r.node>>, rest |-> r.rest]
       ELSE a

\* atom: NAME | NUMBER | '(' comparison ')'
parse_atom(toks) ==
    IF toks[1] = <<"(">>
    THEN LET e == parse_comparison(Tail(toks)) IN [node |-> e.node, rest |-> Tail(e.rest)]
    ELSE IF IsDigit(toks[1][1]) THEN [node |-> <<"Constant", int(toks[1])>>, rest |-> Tail(toks)]
    ELSE [node |-> <<"Name", toks[1][1]>>, rest |-> Tail(toks)]

\* ast.parse(text, mode='eval').body
parse(text) == parse_comparison(Tokenize(text)).node

IsPowerOfLiterals(node) ==
    /\ node[1] = "BinOp" /\ node[3] = "**"
    /\ node[2][1] = "Constant" /\ node[4][1] = "Constant"
    /\ node[2][2] \in {FromSmall(2), FromSmall(10)}
    /\ Len(node[4][2]) \in {1, 2}

RECURSIVE Fold(_)
RECURSIVE FoldAll(_)

FoldAll(nodes_) == IF nodes_ = <<>> THEN <<>> ELSE <<Fold(nodes_[1])>> \o FoldAll(Tail(nodes_))

\* the tree with every power of 2 or 10 to a literal exponent replaced by the
\* literal of its value: trees that fold to the same tree evaluate alike
Fold(node) ==
    CASE node[1] = "BinOp" ->
             LET folded == <<"BinOp", Fold(node[2]), node[3], Fold(node[4])>>
             IN IF IsPowerOfLiterals(folded)
                THEN <<"Constant", pow(Small(folded[2][2]), Small(folded[4][2]))>>
                ELSE folded
      [] node[1] = "Compare" -> <<"Compare", Fold(node[2]), node[3], FoldAll(node[4])>>
      [] OTHER -> node

\* the precedence of a node's own operator
OwnPrecedence(node) ==
    CASE node[1] = "BinOp" -> binop_precedence(node[3])
      [] node[1] = "Compare" -> Precedence.CMP
      [] OTHER -> Precedence.ATOM

RECURSIVE RuleText(_)
RECURSIVE RuleOperand(_, _, _)

\* an operand in parentheses if and only if its own precedence is strictly
\* lower than the operator's, or equal and it is on a side the operator does not
\* associate to
RuleOperand(operand, operator_precedence, associates) ==
    LET prec == OwnPrecedence(operand)
    IN IF prec < operator_precedence \/ (prec = operator_precedence /\ ~associates)
       THEN <<"(">> \o RuleText(operand) \o <<")">>
       ELSE RuleText(operand)

RuleText(node) ==
    CASE node[1] = "BinOp" ->
             RuleOperand(node[2], binop_precedence(node[3]), node[3] \notin binop_rassoc)
                 \o Chars(node[3])
                 \o RuleOperand(node[4], binop_precedence(node[3]), node[3] \in binop_rassoc)
      [] node[1] = "Compare" ->
             RuleOperand(node[2], Precedence.CMP, FALSE) \o Chars(node[3][1])
                 \o RuleOperand(node[4][1], Precedence.CMP, FALSE)
      [] OTHER -> traverse(node, Precedence.ATOM)

RECURSIVE Close(_, _, _)
\* position of the ')' that closes the '(' before position i, depth parentheses
\* being open at i
Close(text, i, depth) ==
    IF text[i] = ")" /\ depth = 0 THEN i
    ELSE Close(text, i + 1,
               IF text[i] = "(" THEN depth + 1 ELSE IF text[i] = ")" THEN depth - 1 ELSE depth)

\* the text without the pair of parentheses that opens at position i
WithoutParens(text, i) ==
    LET j == Close(text, i + 1, 0)
    IN SubSeq(text, 1, i - 1) \o SubSeq(text, i + 1, j - 1) \o SubSeq(text, j + 1, Len(text))

\* C9: the printer parenthesizes an operand if and only if its precedence is
\* strictly lower than the operator's, or equal and on the non-associative side;
\* consequently the printed text parses back to the same tree and removing any
\* pair of parentheses it emitted changes the parsed tree
C9_ParensRoundTrip ==
    printed # <<>> =>
        /\ printed = RuleText(tree)
        /\ Fold(parse(printed)) = Fold(tree)
        /\ \A i \in 1..Len(printed) :
               printed[i] = "(" => Fold(parse(WithoutParens(printed, i))) # Fold(tree)

\* the literal is written as a power
Rewritten(node) == node[1] = "Constant" /\ visit_Constant(node[2]) # repr(node[2])

\* the precedence of what is written for a node: that of `**` for a literal
\* written as a power
WrittenPrecedence(node) ==
    IF Rewritten(node) THEN Precedence.POWER ELSE OwnPrecedence(node)

RECURSIVE Grouped(_, _)
\* the text of a node under the precedence its position requires, the power form
\* of a literal in parentheses where the position requires more than that of `**`
Grouped(node, required) ==
    LET text ==
            CASE node[1] = "BinOp" ->
                     LET prec == binop_precedence(node[3])
                         rassoc == node[3] \in binop_rassoc
                     IN Grouped(node[2], IF rassoc THEN next(prec) ELSE prec)
                            \o Chars(node[3])
                            \o Grouped(node[4], IF rassoc THEN prec ELSE next(prec))
              [] node[1] = "Compare" ->
                     Grouped(node[2], next(Precedence.CMP)) \o Chars(node[3][1])
                         \o Grouped(node[4][1], next(Precedence.CMP))
              [] OTHER -> traverse(node, required)
    IN IF required > WrittenPrecedence(node) THEN <<"(">> \o text \o <<")">> ELSE text

\* C12: an integer literal that is rewritten to `10**k` or `2**k` groups as a
\* single operand: where its position requires a precedence tighter than that of
\* `**` on that side (the left operand of `**`) the power form is in parentheses,
\* so the printed expression evaluates as the tree with the plain literal
C12_PowerFormGrouped ==
    printed # <<>> =>
        /\ printed = Grouped(tree, Precedence.TEST)
        /\ Fold(parse(printed)) = Fold(tree)

====
